---- MODULE Spec2Model ----
(***************************************************************************)
(* The bash agent of src/bash_agent.py (run_bash_agent and its helpers)    *)
(* and the command sniffer of src/temp.py (extract_command_from_text).     *)
(*                                                                         *)
(* Spec      one task of run_bash_agent: the loop over model requests,     *)
(*           the three extraction paths, execution and the final answer.   *)
(* SniffSpec one call of extract_command_from_text on a bounded input.     *)
(***************************************************************************)
EXTENDS Integers, Sequences, FiniteSets, TLC

VARIABLES
    pc,              \* position in run_bash_agent
    max_iterations,  \* the parameter max_iterations
    iteration,       \* number of loop iterations started
    conversation,    \* conversation.messages
    final_response,  \* the local final_response
    reply,           \* the choice of the response being handled (NoReply when none)
    command,         \* the local command after the extraction step
    tried,           \* history: the later extraction paths attempted for this reply
    ret,             \* the value returned by run_bash_agent
    nRequests,       \* history: number of call_model calls
    executed,        \* history: the commands handed to execute_bash_command
    log,             \* history: one entry per iteration that finished
    api_key,         \* GPT_OSS_API_KEY is set in the environment
    nPosts,          \* history: number of requests.post calls
    api_messages,    \* history: "messages" of the last payload posted
    stext,           \* extract_command_from_text: the input text
    original_text,   \* extract_command_from_text: the text passed in, as tokens
    decoder_input,   \* history: the text handed to enc.encode
    spc,             \* extract_command_from_text: position
    sresult,         \* extract_command_from_text: the value returned
    sfallback        \* history: the fallback regex scan was run

callVars == <<api_key, nPosts, api_messages>>
agentVars == <<pc, max_iterations, iteration, conversation, final_response, reply,
               command, tried, ret, nRequests, executed, log,
               api_key, nPosts, api_messages>>
sniffVars == <<stext, original_text, decoder_input, spc, sresult, sfallback>>
vars == <<pc, max_iterations, iteration, conversation, final_response, reply,
          command, tried, ret, nRequests, executed, log,
          api_key, nPosts, api_messages,
          stext, original_text, decoder_input, spc, sresult, sfallback>>

(***************************************************************************)
(* Bounds                                                                  *)
(***************************************************************************)
MaxIter == 3      \* max_iterations ranges over 1..MaxIter
MaxItems == 2     \* tool calls plus decoded messages carried by one reply
MaxSniff == 2     \* decoded messages and content items in one sniffed text
MaxText == 12     \* tokens of a text given to the loop detection

(***************************************************************************)
(* Values                                                                  *)
(***************************************************************************)
Null == "<None>"                       \* Python None (JSON null, missing key)
Commands == {"ls", "pwd"}
CmdVals == {Null, ""} \cup Commands    \* what a "command" field can hold

\* Python truthiness of a command value
\* a variant of Truthy that only tells None apart
TruthyNotNone(c) == c # Null

Truthy(c) == c \notin {Null, ""}

SeqsUpTo(S, n) == UNION {[1..k -> S] : k \in 0..n}

\* A piece of text. kind says what json.loads makes of it:
\*   "empty"        the empty string
\*   "text"         not JSON
\*   "scalar"       a JSON number, true, false or null
\*   "list"         a JSON array without the element "command"
\*   "object_other" a JSON object without the key "command"
\*   "object"       a JSON object with the key "command", holding command
\*   "thought"      reasoning text (not JSON)
Text(k, c) == [kind |-> k, command |-> c]
EmptyText == Text("empty", Null)
NoneText == Text("None", Null)         \* Python None where a text is expected
Contents ==
    {Text(k, Null) : k \in {"empty", "text", "scalar", "list", "object_other"}}
        \cup {Text("object", c) : c \in CmdVals}
Reasonings == {EmptyText, Text("thought", Null)}
FinishReasons == {"stop", "length"}

\* Python truthiness of a text
TextTruthy(t) == t \notin {EmptyText, NoneText}

\* One entry of msg["tool_calls"]: bash says "bash" occurs in the function name,
\* shape what the arguments are (an unparsable string, JSON that is no object,
\* a JSON object or dict), command what args.get("command") gives for an object.
ToolCall(b, s, c) == [bash |-> b, shape |-> s, command |-> c]
ToolCalls ==
    {ToolCall(FALSE, "object", "pwd"),
     ToolCall(TRUE, "malformed", Null),
     ToolCall(TRUE, "nonobject", Null)}
        \cup {ToolCall(TRUE, "object", c) : c \in CmdVals}

\* One message decoded by enc.parse_messages_from_completion_tokens: to_bash says
\* "execute_bash" occurs in the recipient, shape what the first content item is.
ParsedMsg(b, s, c) == [to_bash |-> b, shape |-> s, command |-> c]
ParsedMsgs ==
    {ParsedMsg(FALSE, "object", "pwd"),
     ParsedMsg(TRUE, "nocontent", Null),
     ParsedMsg(TRUE, "malformed", Null),
     ParsedMsg(TRUE, "nonobject", Null)}
        \cup {ParsedMsg(TRUE, "object", c) : c \in CmdVals}

\* What the text of a reply gives on the harmony path: marker says
\* "execute_bash" occurs in full_text, raises that encode/parse raised,
\* parsed the decoded messages.
Harmony(m, r, p) == [marker |-> m, raises |-> r, parsed |-> p]
NoMarker == Harmony(FALSE, FALSE, <<>>)
HarmonyUpTo(n) ==
    {NoMarker, Harmony(TRUE, TRUE, <<>>)}
        \cup {Harmony(TRUE, FALSE, p) : p \in SeqsUpTo(ParsedMsgs, n)}

Reply(tcs, c, r, f, h) ==
    [tool_calls |-> tcs, content |-> c, reasoning_content |-> r,
     finish_reason |-> f, harmony |-> h]
NoReply == Reply(<<>>, NoneText, NoneText, Null, NoMarker)

\* full_text can only contain the marker when it has text that is no scalar
MarkerPossible(c, r) == r # EmptyText \/ c.kind \notin {"empty", "scalar"}

\* The replies the model can give to request number n. To the first request:
\* every combination of at most MaxItems tool calls and decoded messages. To a
\* later request: no tool call, no marker, and one content of each outcome
\* (answer, nothing at all, exception, command).
LaterContents ==
    {EmptyText, Text("text", Null), Text("scalar", Null), Text("object", "ls")}
ToolCallsAt(n) == IF n = 1 THEN MaxItems ELSE 0
HarmonyAt(n, k) == IF n = 1 THEN HarmonyUpTo(MaxItems - k) ELSE {NoMarker}
ContentsAt(n) == IF n = 1 THEN Contents ELSE LaterContents

(***************************************************************************)
(* Conversation turns                                                      *)
(***************************************************************************)
Turn(role, channel, recipient, content) ==
    [role |-> role, channel |-> channel, recipient |-> recipient, content |-> content]

SeedTurns ==
    << Turn("system", Null, Null, Text("system_content", Null)),
       Turn("developer", Null, Null, Text("developer_content", Null)),
       Turn("user", Null, Null, Text("user_task", Null)) >>

(***************************************************************************)
(* execute_bash_command: the (output, exit code) pairs it can return       *)
(***************************************************************************)
ExecResult(o, rc) == [output |-> o, return_code |-> rc]
\* what subprocess.run does: it completes, it exceeds the 30 s timeout, or it
\* raises another exception (the command cannot be launched)
SubprocessOutcomes == {"completed", "timeout", "exception"}

\* the value execute_bash_command returns on each of its three paths
ExecutionResult(outcome) ==
    CASE outcome = "completed" -> ExecResult("stdout+stderr", 0)
      [] outcome = "timeout" ->
            ExecResult("Error: Command timed out after 30 seconds", -1)
      [] outcome = "exception" -> ExecResult("Error: e", -1)

ExecutorRaisesOnTimeout(outcome) == outcome = "timeout"

\* the paths on which execute_bash_command raises to its caller: none, both
\* except clauses return
ExecutorRaises(outcome) == FALSE

execute_bash_command ==
    {ExecutionResult(outcome) : outcome \in SubprocessOutcomes}

(***************************************************************************)
(* The extraction step of run_bash_agent                                   *)
(***************************************************************************)
\* a variant of ScanToolCalls that stops at the first tool call with a command
RECURSIVE ScanToolCallsFirstWins(_, _)
ScanToolCallsFirstWins(tcs, cmd) ==
    IF tcs = <<>> THEN cmd
    ELSE LET tc == Head(tcs)
         IN IF tc.bash /\ tc.shape = "object"
            THEN tc.command
            ELSE ScanToolCallsFirstWins(Tail(tcs), cmd)

\* for tc in msg["tool_calls"]: the value of command after the loop, cmd before
RECURSIVE ScanToolCalls(_, _)
ScanToolCalls(tcs, cmd) ==
    IF tcs = <<>> THEN cmd
    ELSE LET tc == Head(tcs)
             next == IF tc.bash /\ tc.shape = "object"
                     THEN tc.command     \* command = args.get("command")
                     ELSE cmd            \* other name, or except: pass
         IN ScanToolCalls(Tail(tcs), next)

\* a variant of extract_command that goes on to the next message when the
\* object has no "command"
RECURSIVE ExtractCommandSkipsMissing(_)
ExtractCommandSkipsMissing(messages) ==
    IF messages = <<>> THEN Null
    ELSE LET msg == Head(messages)
         IN IF msg.to_bash /\ msg.shape = "object" /\ msg.command # Null
            THEN msg.command
            ELSE ExtractCommandSkipsMissing(Tail(messages))

\* extract_command(messages)
RECURSIVE extract_command(_)
extract_command(messages) ==
    IF messages = <<>> THEN Null
    ELSE LET msg == Head(messages)
         IN IF msg.to_bash /\ msg.shape = "object"
            THEN msg.command             \* return args.get("command")
            ELSE extract_command(Tail(messages))

\* json.loads(content.strip()) followed by the membership test raises an
\* exception other than json.JSONDecodeError
ContentJsonRaises(content) == content.kind = "scalar"

\* a variant that takes content that is no JSON for the command itself
ContentJsonCommandWholeText(content, cmd) ==
    IF content.kind = "object" THEN content.command
    ELSE IF content.kind = "text" THEN "ls" ELSE cmd

\* the value of command after "Check if content is JSON with command"
ContentJsonCommand(content, cmd) ==
    IF content.kind = "object" THEN content.command ELSE cmd

\* the value of command after "Check for harmony format"
HarmonyCommand(h, cmd) ==
    IF h.raises THEN cmd ELSE extract_command(h.parsed)

\* The whole extraction step on the reply r: the command, the later paths
\* attempted, and whether an exception escapes.
Extraction(r) ==
    LET c1 == ScanToolCalls(r.tool_calls, Null)
        try2 == ~Truthy(c1) /\ TextTruthy(r.content)
        raised == try2 /\ ContentJsonRaises(r.content)
        c2 == IF try2 THEN ContentJsonCommand(r.content, c1) ELSE c1
        try3 == ~Truthy(c2) /\ r.harmony.marker
        c3 == IF try3 THEN HarmonyCommand(r.harmony, c2) ELSE c2
    IN [command |-> c3,
        tried |-> (IF try2 THEN {"content_json"} ELSE {})
                    \cup (IF try3 /\ ~raised THEN {"harmony"} ELSE {}),
        raised |-> raised]

(***************************************************************************)
(* call_model                                                              *)
(***************************************************************************)
KeyCheckSkipped(key) == FALSE

\* "if not api_key: raise ValueError"
MissingKey(key) == ~key

\* msg.content, the list of content items of a turn: Message.from_role_and_content
\* gives every turn exactly one
ContentParts(turn) == <<turn.content>>

\* one entry of api_messages: the role and the joined content
ApiMessage(turn) == [role |-> turn.role, content |-> ContentParts(turn)]

\* a variant that leaves the tool turns out of the payload
RECURSIVE ApiMessagesWithoutTool(_)
ApiMessagesWithoutTool(messages) ==
    IF messages = <<>> THEN <<>>
    ELSE (IF Head(messages).role # "tool"
          THEN <<ApiMessage(Head(messages))>> ELSE <<>>)
            \o ApiMessagesWithoutTool(Tail(messages))

\* "Convert conversation to API message format": one entry per turn whose
\* content list is not empty, in order
RECURSIVE ApiMessages(_)
ApiMessages(messages) ==
    IF messages = <<>> THEN <<>>
    ELSE (IF ContentParts(Head(messages)) # <<>>
          THEN <<ApiMessage(Head(messages))>> ELSE <<>>)
            \o ApiMessages(Tail(messages))

(***************************************************************************)
(* run_bash_agent                                                          *)
(***************************************************************************)
\* a variant of ContentOrReasoning that never falls back to the reasoning
ContentOnly(r) == r.content

\* content or reasoning / content if content else reasoning
ContentOrReasoning(r) ==
    IF TextTruthy(r.content) THEN r.content ELSE r.reasoning_content

\* the assistant turn appended when a command was found
AssistantTurn(r) ==
    Turn("assistant", "commentary", "functions.execute_bash", ContentOrReasoning(r))

\* a variant whose tool_result leaves the command out
ToolTurnWithoutCommand(cmd, res) ==
    Turn("tool", "commentary", "assistant",
         [kind |-> "tool_result", command |-> Null,
          return_code |-> res.return_code, output |-> res.output])

\* the tool turn carrying tool_result
ToolTurn(cmd, res) ==
    Turn("tool", "commentary", "assistant",
         [kind |-> "tool_result", command |-> cmd,
          return_code |-> res.return_code, output |-> res.output])

\* the assistant turn appended for a final response
FinalTurn(answer) == Turn("assistant", "final", Null, answer)

\* a variant of FinalAppend that overwrites the last turn
FinalOverwriteLast(conv, answer) ==
    IF TextTruthy(answer)
    THEN Append(SubSeq(conv, 1, Len(conv) - 1), FinalTurn(answer))
    ELSE conv

\* the turns appended in the "No command" branch
FinalAppend(conv, answer) ==
    IF TextTruthy(answer) THEN Append(conv, FinalTurn(answer)) ELSE conv

\* a variant of CommandTurns that appends the tool turn alone
CommandTurnsToolOnly(r, cmd, res) == <<ToolTurn(cmd, res)>>

\* the turns appended when a command was found and executed
CommandTurns(r, cmd, res) == <<AssistantTurn(r), ToolTurn(cmd, res)>>

\* a variant of FinalResponseAfterCommand that forgets the earlier answer
FinalResponseReset(fr) == NoneText

\* final_response after an iteration that found a command
FinalResponseAfterCommand(fr) == fr

\* a variant of FailureResult that returns the answer recorded so far
FailureResultKeepsAnswer(fr) == fr

\* the value returned when call_model raised or the response has no choices
FailureResult(fr) == NoneText

\* a variant of IsStop that takes no finish reason for completion
IsStopNever(r) == FALSE

\* a variant of IsStop that takes every finish reason for completion
IsStopAlways(r) == TRUE

\* the loop leaves through break
IsStop(r) == r.finish_reason = "stop"

\* what the log keeps of a finished iteration: whether it found a command
\* ("command") or not ("answer"), and of a reply without command its texts and
\* finish reason
LogEntry(k, r) ==
    IF k = "command"
    THEN [kind |-> k, content |-> NoneText, reasoning_content |-> NoneText,
          finish_reason |-> Null]
    ELSE [kind |-> k, content |-> r.content,
          reasoning_content |-> r.reasoning_content,
          finish_reason |-> r.finish_reason]

(***************************************************************************)
(* extract_command_from_text (src/temp.py): its input                      *)
(***************************************************************************)
HdlText == "module m; endmodule"
ShellHdlText == "echo 'module m; endmodule' > m.v"

\* looks_like_hdl_code(text) and looks_like_shell_command(text), on a
\* stripped text
looks_like_hdl_code(text) == text \in {HdlText, ShellHdlText}
looks_like_shell_command(text) == text \in {"ls", "ls -la", ShellHdlText}

\* One content item of a decoded message. kind says what json.loads makes of
\* its text:
\*   "blank"        only whitespace
\*   "plain"        not JSON: body is the stripped text, pad says the text has
\*                  surrounding whitespace, blocks are the fenced bash/sh/shell
\*                  code blocks in it
\*   "cmd_list"     a JSON object whose "cmd" is the list cmd
\*   "object_other" a JSON object with no list under "cmd"
\*   "scalar"       a JSON number, true, false or null
Item(k, body, pad, cmd, blocks) ==
    [kind |-> k, body |-> body, pad |-> pad, cmd |-> cmd, blocks |-> blocks]
BlankItem == Item("blank", "", TRUE, <<>>, <<>>)
PlainItem(body, pad) == Item("plain", body, pad, <<>>, <<>>)
FencedItem(blocks) == Item("plain", "fenced", FALSE, <<>>, blocks)
CmdListItem(cmd) == Item("cmd_list", "json", FALSE, cmd, <<>>)

CmdLists ==
    {<<>>, <<"ls">>, <<HdlText>>, <<"ls", "ls -la">>, <<"ls", HdlText>>, <<HdlText, "ls">>}
BlockLists == {<<"echo a">>, <<"echo a", "echo b">>}

\* the content items a message of the channel can carry
ItemsOf(channel) ==
    CASE channel = "bash" ->
            {BlankItem, PlainItem("ls", FALSE), PlainItem("ls", TRUE),
             PlainItem(HdlText, FALSE)}
      [] channel = "analysis" ->
            {BlankItem, PlainItem("ls", TRUE), PlainItem("hello", FALSE),
             PlainItem(HdlText, FALSE), PlainItem(ShellHdlText, FALSE),
             Item("object_other", "json", FALSE, <<>>, <<>>),
             Item("scalar", "json", FALSE, <<>>, <<>>)}
                \cup {CmdListItem(c) : c \in CmdLists}
      [] channel = "final" ->
            {PlainItem("hello", FALSE)} \cup {FencedItem(b) : b \in BlockLists}
      [] OTHER -> {PlainItem("hello", FALSE)}

Channels == {"bash", "analysis", "final", "commentary"}

SniffMsg(channel, content) == [channel |-> channel, content |-> content]

\* the messages that weigh w: one for the message with at most one content
\* item, one more for each further item
MsgsOfWeight(w) ==
    UNION {{SniffMsg(ch, c) : c \in [1..w -> ItemsOf(ch)]} : ch \in Channels}
        \cup (IF w = 1 THEN {SniffMsg(ch, <<>>) : ch \in Channels} ELSE {})

\* the message lists of total weight at most w
RECURSIVE MsgListsUpTo(_)
MsgListsUpTo(w) ==
    {<<>>} \cup
    UNION {{<<m>> \o rest : m \in MsgsOfWeight(k), rest \in MsgListsUpTo(w - k)}
           : k \in 1..w}

\* The input text. blank: text.strip() is empty. decoder: what loading the
\* encoding, encode and parse_messages_from_completion_tokens do ("unavailable",
\* "raises" or "ok"); parsed: the messages decoded. fallback: the fenced
\* bash/sh/shell code blocks the regex scan finds in the stripped text.
SniffText(blank, decoder, parsed, fallback) ==
    [blank |-> blank, decoder |-> decoder, parsed |-> parsed, fallback |-> fallback]
Fallbacks == {<<>>} \cup BlockLists

(***************************************************************************)
(* extract_command_from_text: the loop detection before decoding           *)
(***************************************************************************)
\* original_text, the text as it was passed in, as a sequence of tokens:
\* CallToken is one occurrence of "<|call|>", OtherToken any other piece of
\* text that is not whitespace. A text of only whitespace has no token.
CallToken == "<|call|>"
OtherToken == "x"
TextTokens == {CallToken, OtherToken}

\* "if call_token_count > 10" and "parts[:11]"
CallTokenLimit == 10
KeptParts == 11

\* original_text.count("<|call|>")
RECURSIVE count(_)
count(text) ==
    IF text = <<>> THEN 0
    ELSE (IF Head(text) = CallToken THEN 1 ELSE 0) + count(Tail(text))

\* original_text.split("<|call|>"): the pieces between the occurrences
RECURSIVE SplitFrom(_, _, _, _)
SplitFrom(text, i, part, parts) ==
    IF i > Len(text) THEN Append(parts, part)
    ELSE IF text[i] = CallToken
         THEN SplitFrom(text, i + 1, <<>>, Append(parts, part))
         ELSE SplitFrom(text, i + 1, Append(part, text[i]), parts)
split(text) == SplitFrom(text, 1, <<>>, <<>>)

\* "<|call|>".join(parts)
RECURSIVE join(_)
join(parts) ==
    IF parts = <<>> THEN <<>>
    ELSE IF Len(parts) = 1 THEN parts[1]
         ELSE parts[1] \o <<CallToken>> \o join(Tail(parts))

\* parts[:n]
Slice(parts, n) == SubSeq(parts, 1, IF n < Len(parts) THEN n ELSE Len(parts))

DecoderInputOffByOne(text) ==
    IF count(text) > CallTokenLimit
    THEN join(Slice(split(text), CallTokenLimit))
    ELSE text

\* the text that is encoded: truncated_text when the loop is detected,
\* original_text otherwise
DecoderInput(text) ==
    IF count(text) > CallTokenLimit
    THEN join(Slice(split(text), KeptParts))
    ELSE text

\* decoder_input: nothing was encoded, or the text that was
NoInput == [called |-> FALSE, text |-> <<>>]
Encoded(text) == [called |-> TRUE, text |-> text]

(***************************************************************************)
(* extract_command_from_text: the scan of the decoded messages             *)
(***************************************************************************)
\* a result of the function: found is FALSE for None; the command as its lines,
\* the path that found it, and the message and content item it comes from
Result(f, lines, path, m, i) ==
    [found |-> f, command |-> lines, path |-> path, msg |-> m, item |-> i]
Found(lines, path, m, i) == Result(TRUE, lines, path, m, i)
NoCommand == Result(FALSE, <<>>, "none", 0, 0)

\* a variant of RejectsCmd without the safety check
RejectsNothing(cmd) == FALSE

\* the HDL check on the last element of a "cmd" list
RejectsCmd(cmd) == looks_like_hdl_code(cmd)

\* What one content item does in a message of the channel:
\*   "return" with lines, "raise" (an exception other than JSONDecodeError),
\*   "hdl" (hdl_detected_in_json set, break) or "next"
ItemOutcome(channel, it) ==
    CASE channel \in {"bash", "sh", "shell", "cmd"} ->
            IF it.kind # "blank"
            THEN [t |-> "return", lines |-> <<it.body>>, path |-> "channel"]
            ELSE [t |-> "next"]
      [] channel = "analysis" ->
            IF it.kind = "cmd_list"
            THEN IF Len(it.cmd) > 0
                 THEN IF RejectsCmd(it.cmd[Len(it.cmd)])
                      THEN [t |-> "hdl"]
                      ELSE [t |-> "return", lines |-> <<it.cmd[Len(it.cmd)]>>,
                            path |-> "json"]
                 ELSE [t |-> "next"]
            ELSE IF it.kind = "object_other" THEN [t |-> "next"]
            ELSE IF it.kind = "scalar" THEN [t |-> "raise"]
            ELSE IF looks_like_shell_command(it.body) /\ ~looks_like_hdl_code(it.body)
                 THEN [t |-> "return", lines |-> <<it.body>>, path |-> "raw"]
                 ELSE [t |-> "next"]
      [] channel = "final" ->
            IF it.kind = "plain" /\ it.blocks # <<>>
            THEN [t |-> "return", lines |-> it.blocks, path |-> "code_block"]
            ELSE [t |-> "next"]
      [] OTHER -> [t |-> "next"]

\* for msg in parsed_messages, from content item i of message m on: the value
\* returned ("return"), an exception ("raise"), or the end of the loop ("end")
\* with hdl_detected_in_json
RECURSIVE ScanMessages(_, _, _, _)
ScanMessages(msgs, m, i, hdl) ==
    IF m > Len(msgs) THEN [t |-> "end", hdl |-> hdl]
    ELSE IF i > Len(msgs[m].content) THEN ScanMessages(msgs, m + 1, 1, hdl)
    ELSE LET o == ItemOutcome(msgs[m].channel, msgs[m].content[i])
         IN CASE o.t = "return" ->
                    [t |-> "return", found |-> Found(o.lines, o.path, m, i)]
              [] o.t = "raise" -> [t |-> "raise"]
              [] o.t = "hdl" -> ScanMessages(msgs, m + 1, 1, TRUE)
              [] OTHER -> ScanMessages(msgs, m, i + 1, hdl)

\* "if parsed_messages or hdl_detected_in_json: return None"
ReturnsNoneAfterScan(msgs, hdl) == msgs # <<>> \/ hdl

AgentInit ==
    /\ pc = "request"
    /\ max_iterations \in 1..MaxIter
    /\ iteration = 0
    /\ conversation = SeedTurns
    /\ final_response = NoneText
    /\ reply = NoReply
    /\ command = Null
    /\ tried = {}
    /\ ret = Text("unset", Null)
    /\ nRequests = 0
    /\ executed = <<>>
    /\ log = <<>>
    /\ api_key \in BOOLEAN
    /\ nPosts = 0
    /\ api_messages = <<>>

SniffIdle ==
    /\ spc = "idle"
    /\ stext = SniffText(TRUE, "ok", <<>>, <<>>)
    /\ original_text = <<>>
    /\ decoder_input = NoInput
    /\ sresult = NoCommand
    /\ sfallback = FALSE

Init == AgentInit /\ SniffIdle

\* call_model returned a response with a non-empty choice list
CallModel ==
    /\ pc = "request"
    /\ iteration < max_iterations
    /\ ~MissingKey(api_key)
    /\ nPosts' = nPosts + 1
    /\ api_messages' = ApiMessages(conversation)
    /\ UNCHANGED api_key
    /\ \E k \in 0..ToolCallsAt(iteration + 1) :
       \E tcs \in [1..k -> ToolCalls], h \in HarmonyAt(iteration + 1, k),
          c \in ContentsAt(iteration + 1), r \in Reasonings, f \in FinishReasons :
          /\ h.marker => MarkerPossible(c, r)
          /\ reply' = Reply(tcs, c, r, f, h)
    /\ pc' = "extract"
    /\ iteration' = iteration + 1
    /\ nRequests' = nRequests + 1
    /\ command' = Null
    /\ tried' = {}
    /\ UNCHANGED <<max_iterations, conversation, final_response, ret, executed, log>>
    /\ UNCHANGED sniffVars

\* call_model raised (before the request for want of a key, or because of the
\* request), or the response has no choices: return None
EndpointFailure ==
    /\ pc = "request"
    /\ iteration < max_iterations
    /\ IF MissingKey(api_key)
       THEN UNCHANGED <<nPosts, api_messages>>
       ELSE /\ nPosts' = nPosts + 1
            /\ api_messages' = ApiMessages(conversation)
    /\ UNCHANGED api_key
    /\ iteration' = iteration + 1
    /\ nRequests' = nRequests + 1
    /\ pc' = "aborted"
    /\ ret' = FailureResult(final_response)
    /\ UNCHANGED <<max_iterations, conversation, final_response, reply, command,
                   tried, executed, log>>
    /\ UNCHANGED sniffVars

\* the three extraction paths finish and leave the command
ExtractCommand ==
    /\ pc = "extract"
    /\ LET x == Extraction(reply)
       IN /\ ~x.raised
          /\ command' = x.command
          /\ tried' = x.tried
    /\ pc' = "act"
    /\ UNCHANGED <<max_iterations, iteration, conversation, final_response, reply,
                   ret, nRequests, executed, log>>
    /\ UNCHANGED callVars
    /\ UNCHANGED sniffVars

\* an exception of the extraction step leaves run_bash_agent
ExtractRaises ==
    /\ pc = "extract"
    /\ LET x == Extraction(reply)
       IN /\ x.raised
          /\ tried' = x.tried
    /\ pc' = "raised"
    /\ UNCHANGED <<max_iterations, iteration, conversation, final_response, reply,
                   command, ret, nRequests, executed, log>>
    /\ UNCHANGED callVars
    /\ UNCHANGED sniffVars

\* "Execute command if found"
ExecuteCommand ==
    /\ pc = "act"
    /\ Truthy(command)
    /\ executed' = Append(executed, command)
    /\ \E outcome \in SubprocessOutcomes :
          IF ExecutorRaises(outcome)
          THEN /\ pc' = "raised"
               /\ UNCHANGED <<conversation, final_response, log, reply>>
          ELSE /\ conversation' = conversation \o
                      CommandTurns(reply, command, ExecutionResult(outcome))
               /\ final_response' = FinalResponseAfterCommand(final_response)
               /\ log' = Append(log, LogEntry("command", reply))
               /\ pc' = "request"
               /\ reply' = NoReply
    /\ UNCHANGED <<max_iterations, iteration, command, tried, ret, nRequests>>
    /\ UNCHANGED callVars
    /\ UNCHANGED sniffVars

\* "No command - final response"
FinalAnswer ==
    /\ pc = "act"
    /\ ~Truthy(command)
    /\ LET answer == ContentOrReasoning(reply)
       IN /\ final_response' = answer
          /\ conversation' = FinalAppend(conversation, answer)
          /\ log' = Append(log, LogEntry("answer", reply))
          /\ IF IsStop(reply)
             THEN pc' = "done" /\ ret' = answer
             ELSE pc' = "request" /\ ret' = ret
    /\ reply' = NoReply
    /\ UNCHANGED <<max_iterations, iteration, command, tried, nRequests, executed>>
    /\ UNCHANGED callVars
    /\ UNCHANGED sniffVars

\* range(max_iterations) is exhausted: return final_response
LoopEnd ==
    /\ pc = "request"
    /\ iteration = max_iterations
    /\ pc' = "exhausted"
    /\ ret' = final_response
    /\ UNCHANGED <<max_iterations, iteration, conversation, final_response, reply,
                   command, tried, nRequests, executed, log>>
    /\ UNCHANGED callVars
    /\ UNCHANGED sniffVars

Next ==
    \/ CallModel
    \/ EndpointFailure
    \/ ExtractCommand
    \/ ExtractRaises
    \/ ExecuteCommand
    \/ FinalAnswer
    \/ LoopEnd

Spec == Init /\ [][Next]_vars

(***************************************************************************)
(* extract_command_from_text: one call                                     *)
(***************************************************************************)
AgentIdle ==
    /\ pc = "idle"
    /\ max_iterations = 1
    /\ iteration = 0
    /\ conversation = SeedTurns
    /\ final_response = NoneText
    /\ reply = NoReply
    /\ command = Null
    /\ tried = {}
    /\ ret = Text("unset", Null)
    /\ nRequests = 0
    /\ executed = <<>>
    /\ log = <<>>
    /\ api_key = TRUE
    /\ nPosts = 0
    /\ api_messages = <<>>

SniffInit ==
    /\ AgentIdle
    /\ spc = "start"
    /\ \E blank \in BOOLEAN, decoder \in {"unavailable", "raises", "ok"},
          parsed \in MsgListsUpTo(MaxSniff), fallback \in Fallbacks :
          /\ blank => decoder = "ok" /\ parsed = <<>> /\ fallback = <<>>
          /\ decoder # "ok" => parsed = <<>>
          /\ stext = SniffText(blank, decoder, parsed, fallback)
    /\ original_text = IF stext.blank THEN <<>> ELSE <<OtherToken>>
    /\ decoder_input = NoInput
    /\ sresult = NoCommand
    /\ sfallback = FALSE

\* "if not text: return None"
SniffBlank ==
    /\ spc = "start"
    /\ stext.blank
    /\ sresult' = NoCommand
    /\ spc' = "done"
    /\ UNCHANGED <<stext, original_text, decoder_input, sfallback>>
    /\ UNCHANGED agentVars

\* "Priority 0: Use OpenAI Harmony Parser if available": the try block
SniffHarmony ==
    /\ spc = "start"
    /\ ~stext.blank
    /\ IF stext.decoder # "ok"
       THEN spc' = "fallback" /\ sresult' = sresult
       ELSE LET o == ScanMessages(stext.parsed, 1, 1, FALSE)
            IN CASE o.t = "return" -> spc' = "done" /\ sresult' = o.found
                 [] o.t = "raise" -> spc' = "fallback" /\ sresult' = sresult
                 [] OTHER ->
                        IF ReturnsNoneAfterScan(stext.parsed, o.hdl)
                        THEN spc' = "done" /\ sresult' = NoCommand
                        ELSE spc' = "fallback" /\ sresult' = sresult
    /\ decoder_input' = IF stext.decoder = "unavailable"
                        THEN NoInput
                        ELSE Encoded(DecoderInput(original_text))
    /\ UNCHANGED <<stext, original_text, sfallback>>
    /\ UNCHANGED agentVars

\* "Fallback Regex Parsing"
SniffFallback ==
    /\ spc = "fallback"
    /\ sfallback' = TRUE
    /\ sresult' = IF stext.fallback # <<>>
                  THEN Found(stext.fallback, "fallback", 0, 0)
                  ELSE NoCommand
    /\ spc' = "done"
    /\ UNCHANGED <<stext, original_text, decoder_input>>
    /\ UNCHANGED agentVars

SniffNext ==
    \/ SniffBlank
    \/ SniffHarmony
    \/ SniffFallback

SniffSpec == SniffInit /\ [][SniffNext]_vars

(***************************************************************************)
(* extract_command_from_text: one call on a text of up to MaxText tokens   *)
(***************************************************************************)
LoopTexts == SeqsUpTo(TextTokens, MaxText)
LoopParsed == {<<>>, <<SniffMsg("bash", <<PlainItem("ls", FALSE)>>)>>}
LoopFallbacks == {<<>>, <<"echo a">>}

LoopInit ==
    /\ AgentIdle
    /\ spc = "start"
    /\ original_text \in LoopTexts
    /\ \E decoder \in {"unavailable", "raises", "ok"},
          parsed \in LoopParsed, fallback \in LoopFallbacks :
          /\ original_text = <<>> => decoder = "ok" /\ parsed = <<>> /\ fallback = <<>>
          /\ decoder # "ok" => parsed = <<>>
          /\ stext = SniffText(original_text = <<>>, decoder, parsed, fallback)
    /\ decoder_input = NoInput
    /\ sresult = NoCommand
    /\ sfallback = FALSE

LoopSpec == LoopInit /\ [][SniffNext]_vars

(***************************************************************************)
(* Claims about run_bash_agent (Spec)                                      *)
(***************************************************************************)
Terminal == {"done", "exhausted", "aborted", "raised"}

\* the tool calls of r that name the shell capability and carry a JSON object
ObjectCalls(r) ==
    {i \in DOMAIN r.tool_calls :
        r.tool_calls[i].bash /\ r.tool_calls[i].shape = "object"}
LastObjectCall(r) ==
    r.tool_calls[CHOOSE i \in ObjectCalls(r) : \A j \in ObjectCalls(r) : j <= i]

\* C1 as stated: once the extraction step has run on a reply, every tool call
\* of the reply that names the shell capability with a well-formed JSON
\* argument body gives the command chosen, and no later path was attempted.
C1_AnyToolCallWins ==
    pc \in {"act", "raised"} =>
        \A i \in ObjectCalls(reply) :
            /\ pc = "act"
            /\ command = reply.tool_calls[i].command
            /\ tried = {}

\* C1 amended: when the last tool call that names the shell capability with a
\* JSON object body carries a non-empty command, the extraction step chooses
\* exactly that command and attempts neither the content path nor the
\* harmony path.
C1_LastToolCallWins ==
    (/\ pc \in {"act", "raised"}
     /\ ObjectCalls(reply) # {}
     /\ Truthy(LastObjectCall(reply).command))
        => /\ pc = "act"
           /\ command = LastObjectCall(reply).command
           /\ tried = {}

\* a reply with two shell tool calls of different commands whose content
\* also is JSON with a command: the last tool call decided
C1_Witness ==
    /\ pc = "act"
    /\ Len(reply.tool_calls) = 2
    /\ ObjectCalls(reply) = {1, 2}
    /\ Truthy(reply.tool_calls[1].command)
    /\ Truthy(reply.tool_calls[2].command)
    /\ reply.tool_calls[1].command # reply.tool_calls[2].command
    /\ reply.content.kind = "object"
    /\ Truthy(reply.content.command)
    /\ command = reply.tool_calls[2].command
    /\ tried = {}

\* C3 as stated: no parse error of the extraction step is fatal, no exception
\* leaves run_bash_agent.
C3_ParseErrorsNotFatal == pc # "raised"

\* the answer of a reply without command, from its two texts
AnswerOf(content, reasoning) == IF content # EmptyText THEN content ELSE reasoning

\* the first iteration found a command and the second found none
CommandThenAnswer ==
    /\ Len(log) >= 2
    /\ log[1].kind = "command"
    /\ log[2].kind = "answer"

\* C4 as stated: a run whose first reply yields a command and whose second
\* reply yields none makes exactly two model requests and one execution, and
\* returns the second reply's content.
C4_TwoIterations ==
    CommandThenAnswer =>
        /\ nRequests = 2
        /\ Len(executed) = 1
        /\ pc \in Terminal => ret = log[2].content

\* C4 amended: a run whose first reply yields a command and whose second reply
\* yields none and has finish reason "stop" (or max_iterations is 2) ends after
\* exactly two model requests and one execution, and returns the second
\* reply's content, or its reasoning when the content is empty.
C4_TwoIterationsOnStop ==
    (CommandThenAnswer /\ (log[2].finish_reason = "stop" \/ max_iterations = 2)) =>
        /\ nRequests = 2
        /\ Len(executed) = 1
        /\ Len(log) = 2
        /\ log[2].finish_reason = "stop" => pc = "done"
        /\ pc \in {"done", "exhausted", "request"}
        /\ pc # "request" =>
              ret = AnswerOf(log[2].content, log[2].reasoning_content)

\* the run ended through break after a command and then an answer taken from
\* the reasoning, while a third iteration was allowed
C4_Witness ==
    /\ CommandThenAnswer
    /\ pc = "done"
    /\ max_iterations > 2
    /\ log[2].content = EmptyText
    /\ ret = log[2].reasoning_content
    /\ ret # EmptyText

\* C5 as stated: every iteration that finds no command appends exactly one
\* assistant turn tagged "final" that carries the content, or the reasoning
\* when the content is empty, and executes nothing.
C5_AlwaysOneFinalTurn ==
    [][(pc = "act" /\ ~Truthy(command)) =>
          /\ conversation' = Append(conversation,
                                    FinalTurn(AnswerOf(reply.content,
                                                       reply.reasoning_content)))
          /\ executed' = executed]_vars

\* C5 amended: in every iteration that finds no command the answer is the
\* content, or the reasoning when the content is empty; when the answer is
\* not empty exactly one "final" assistant turn carrying it is appended, when
\* it is empty no turn is appended; nothing is executed.
C5_FinalTurnUnlessEmpty ==
    [][(pc = "act" /\ ~Truthy(command)) =>
          LET answer == AnswerOf(reply.content, reply.reasoning_content)
          IN /\ final_response' = answer
             /\ conversation' = IF answer # EmptyText
                                THEN Append(conversation, FinalTurn(answer))
                                ELSE conversation
             /\ executed' = executed]_vars

\* an iteration without command took the reasoning for its answer and
\* appended it as the last turn
C5_Witness ==
    /\ Len(log) >= 1
    /\ log[Len(log)].kind = "answer"
    /\ log[Len(log)].content = EmptyText
    /\ log[Len(log)].reasoning_content # EmptyText
    /\ final_response = log[Len(log)].reasoning_content
    /\ conversation[Len(conversation)] = FinalTurn(final_response)

\* C6: an endpoint failure returns None whatever answer was recorded, counts
\* as a model request, and nothing happens after it: no request, no
\* execution, no turn.
C6_EndpointFailureAborts ==
    [][/\ pc' = "aborted" =>
            /\ ret' = NoneText
            /\ conversation' = conversation
            /\ executed' = executed
       /\ pc = "aborted" =>
            /\ pc' = "aborted"
            /\ nRequests' = nRequests
            /\ executed' = executed
            /\ conversation' = conversation
            /\ ret' = ret]_vars

\* the endpoint failed after an iteration had recorded an answer
C6_Witness ==
    /\ pc = "aborted"
    /\ final_response \notin {NoneText, EmptyText}
    /\ ret = NoneText
    /\ nRequests >= 2

\* the answer of the most recent iteration without command, None if there is none
RECURSIVE MostRecentAnswer(_)
MostRecentAnswer(l) ==
    IF l = <<>> THEN NoneText
    ELSE IF l[Len(l)].kind = "answer"
         THEN AnswerOf(l[Len(l)].content, l[Len(l)].reasoning_content)
         ELSE MostRecentAnswer(SubSeq(l, 1, Len(l) - 1))

\* C7: never more than max_iterations model requests; a run that is not over
\* can take a step, so it ends after at most that many requests; when the
\* bound is reached without break the value returned is the answer of the
\* most recent iteration without command, None if every iteration found one.
C7_BoundedLoop ==
    /\ nRequests <= max_iterations
    /\ nRequests = iteration
    /\ Len(log) <= nRequests
    /\ pc \notin Terminal => ENABLED Next
    /\ pc = "exhausted" =>
          /\ nRequests = max_iterations
          /\ ret = MostRecentAnswer(log)

\* the bound was reached after an answer that did not stop the loop and a
\* later command
C7_Witness ==
    /\ pc = "exhausted"
    /\ Len(log) >= 2
    /\ log[Len(log)].kind = "command"
    /\ ret \notin {NoneText, EmptyText}

\* C8 as stated: the conversation starts with a system, a developer and a
\* user turn, and after them assistant and tool turns alternate.
C8_Alternating ==
    /\ Len(conversation) >= 3
    /\ conversation[1].role = "system"
    /\ conversation[2].role = "developer"
    /\ conversation[3].role = "user"
    /\ \A i \in 4..Len(conversation) :
          /\ conversation[i].role \in {"assistant", "tool"}
          /\ i > 4 => conversation[i].role # conversation[i - 1].role

\* C8 amended: the conversation starts with exactly one system, one developer
\* and one user turn; every later turn is an assistant or a tool turn; every
\* tool turn directly follows an assistant turn addressed to the shell
\* capability and every such assistant turn is directly followed by a tool
\* turn, so no two tool turns are adjacent and two assistant turns are
\* adjacent only when the first is tagged "final".
C8_ToolFollowsAssistant ==
    /\ Len(conversation) >= 3
    /\ conversation[1].role = "system"
    /\ conversation[2].role = "developer"
    /\ conversation[3].role = "user"
    /\ \A i \in 4..Len(conversation) :
          /\ conversation[i].role \in {"assistant", "tool"}
          /\ conversation[i].role = "tool" =>
                /\ i > 4
                /\ conversation[i - 1].role = "assistant"
                /\ conversation[i - 1].recipient = "functions.execute_bash"
          /\ (conversation[i].role = "assistant" /\ conversation[i].channel # "final") =>
                /\ conversation[i].recipient = "functions.execute_bash"
                /\ i < Len(conversation)
                /\ conversation[i + 1].role = "tool"

\* a final turn that did not stop the loop is followed by the assistant and
\* tool turns of a command
C8_Witness ==
    /\ Len(conversation) >= 6
    /\ conversation[4].role = "assistant"
    /\ conversation[4].channel = "final"
    /\ conversation[5].role = "assistant"
    /\ conversation[6].role = "tool"

\* C9: across every step the conversation before is a prefix of the
\* conversation after.
C9_AppendOnly ==
    [][/\ Len(conversation') >= Len(conversation)
       /\ SubSeq(conversation', 1, Len(conversation)) = conversation]_vars

\* turns were appended in three iterations
C9_Witness ==
    /\ Len(log) >= 3
    /\ Len(conversation) >= 6

(***************************************************************************)
(* Claims about extract_command_from_text (SniffSpec)                      *)
(***************************************************************************)
\* C2 as stated: the fallback regex scan is reached only when the decoder is
\* unavailable or raised; when decoding completed, whatever it produced, the
\* call ends without running the fallback scan.
C2_FallbackOnlyOnDecoderFailure ==
    (spc \in {"fallback", "done"} /\ ~stext.blank /\ stext.decoder = "ok") =>
        /\ spc = "done"
        /\ ~sfallback

\* content item i of decoded message m is a JSON "cmd" list in an "analysis"
\* message whose last element looks like HDL
IsHdlCmd(m, i) ==
    /\ m \in DOMAIN stext.parsed
    /\ i \in DOMAIN stext.parsed[m].content
    /\ stext.parsed[m].channel = "analysis"
    /\ stext.parsed[m].content[i].kind = "cmd_list"
    /\ stext.parsed[m].content[i].cmd # <<>>
    /\ LET cmd == stext.parsed[m].content[i].cmd
       IN looks_like_hdl_code(cmd[Len(cmd)])

\* a content item that neither yields a command nor raises, whatever precedes it
Inert(channel, it) ==
    \/ it.kind = "blank"
    \/ channel \notin {"bash", "sh", "shell", "cmd", "analysis", "final"}
    \/ /\ channel = "analysis"
       /\ \/ it.kind = "object_other"
          \/ it.kind = "cmd_list" /\ it.cmd = <<>>
          \/ /\ it.kind = "plain"
             /\ ~looks_like_shell_command(it.body) \/ looks_like_hdl_code(it.body)
    \/ channel = "final" /\ it.blocks = <<>>

\* content item i of message m is an inert item or a rejected "cmd" list
Passes(m, i) ==
    IsHdlCmd(m, i) \/ Inert(stext.parsed[m].channel, stext.parsed[m].content[i])

\* the scan of the decoded messages gets to content item i of message m
Reached(m, i) ==
    /\ \A k \in 1..(m - 1) : \A j \in DOMAIN stext.parsed[k].content : Passes(k, j)
    /\ \A j \in 1..(i - 1) : Inert(stext.parsed[m].channel, stext.parsed[m].content[j])

ErrorOutputs == {"Error: Command timed out after 30 seconds", "Error: e"}

C11_ExecutionErrorsNotFatal ==
    [][(pc = "act" /\ command \notin {Null, ""}) =>
         LET n == Len(conversation)
         IN /\ pc' = "request"
            /\ Len(conversation') = n + 2
            /\ SubSeq(conversation', 1, n) = conversation
            /\ conversation'[n + 1].role = "assistant"
            /\ conversation'[n + 1].recipient = "functions.execute_bash"
            /\ conversation'[n + 2].role = "tool"
            /\ conversation'[n + 2].content.command = command
            /\ \/ /\ conversation'[n + 2].content.return_code = 0
                  /\ conversation'[n + 2].content.output \notin ErrorOutputs
               \/ /\ conversation'[n + 2].content.return_code = -1
                  /\ conversation'[n + 2].content.output \in ErrorOutputs]_vars

\* a timed-out command is in the conversation as a tool turn and the model was
\* asked again afterwards
C11_Witness ==
    /\ pc = "extract"
    /\ nRequests = 2
    /\ conversation[Len(conversation)].role = "tool"
    /\ conversation[Len(conversation)].content.return_code = -1
    /\ conversation[Len(conversation)].content.output =
          "Error: Command timed out after 30 seconds"

(***************************************************************************)
(* Claims about the loop detection (LoopSpec)                              *)
(***************************************************************************)
CallPositions(text) == {i \in DOMAIN text : text[i] = CallToken}

IsShellCmdList(m, i) ==
    /\ stext.parsed[m].channel = "analysis"
    /\ stext.parsed[m].content[i].kind = "cmd_list"
    /\ stext.parsed[m].content[i].cmd # <<>>
    /\ LET cmd == stext.parsed[m].content[i].cmd
       IN ~looks_like_hdl_code(cmd[Len(cmd)])

\* content item i of message m makes json.loads return a value that is no
\* object, so that the test for "cmd" raises
RaisesAt(m, i) ==
    /\ stext.parsed[m].channel = "analysis"
    /\ stext.parsed[m].content[i].kind = "scalar"

\* no content item before item i of message m yields a command, and no "cmd"
\* list before it in message m was rejected
NothingYieldedBefore(m, i) ==
    /\ \A k \in 1..(m - 1) : \A j \in DOMAIN stext.parsed[k].content :
          Passes(k, j) \/ RaisesAt(k, j)
    /\ \A j \in 1..(i - 1) :
          \/ Inert(stext.parsed[m].channel, stext.parsed[m].content[j])
          \/ RaisesAt(m, j)

\* C13: when the decoder has decoded the text, an "analysis" content item that
\* is a JSON object with a non-empty list "cmd" whose last element passes the
\* HDL filter makes the call return that last element, provided nothing before
\* it yielded a command.
C13_CmdListLastElement ==
    \A m \in DOMAIN stext.parsed : \A i \in DOMAIN stext.parsed[m].content :
        (spc = "done" /\ stext.decoder = "ok" /\ IsShellCmdList(m, i)
            /\ NothingYieldedBefore(m, i))
          => /\ sresult.found
             /\ LET cmd == stext.parsed[m].content[i].cmd
                IN sresult.command = <<cmd[Len(cmd)]>>

(***************************************************************************)
(* Claims about run_bash_agent (Spec), continued                           *)
(***************************************************************************)
\* the reply has no tool call, its content is no JSON, and neither content nor
\* reasoning holds the marker "execute_bash"
PlainReply(r) ==
    /\ r.tool_calls = <<>>
    /\ r.content.kind \in {"empty", "text"}
    /\ ~r.harmony.marker

C15_MissingKeyNothingHappens ==
    ~api_key =>
        /\ nPosts = 0
        /\ api_messages = <<>>
        /\ executed = <<>>
        /\ conversation = SeedTurns
        /\ final_response = NoneText
        /\ \/ pc = "request" /\ iteration = 0 /\ max_iterations > 0 /\ ENABLED EndpointFailure
           \/ pc = "aborted" /\ iteration = 1 /\ ret = NoneText

\* the run without key has ended with None
C15_Witness ==
    /\ ~api_key
    /\ pc = "aborted"
    /\ nRequests = 1
    /\ nPosts = 0
    /\ ret = NoneText

\* C16: the loop is left through break ("done") only by an iteration without
\* command whose finish reason is "stop", and such an iteration always leaves
\* it; an iteration without command and with another finish reason goes back
\* to the head of the loop, and so does every iteration that found a command,
\* whatever its finish reason.
C16_DoneOnlyOnStop ==
    [][/\ (pc' = "done" /\ pc # "done") =>
            /\ pc = "act"
            /\ command \in {Null, ""}
            /\ reply.finish_reason = "stop"
       /\ (pc = "act" /\ command \in {Null, ""}) =>
            pc' = (IF reply.finish_reason = "stop" THEN "done" ELSE "request")
       /\ (pc = "act" /\ command \notin {Null, ""}) => pc' = "request"]_vars

\* an iteration without command and finish reason "length" went back to the
\* head of the loop, a later one with "stop" ended the run
C16_Witness ==
    /\ pc = "done"
    /\ Len(log) = 2
    /\ log[1].kind = "answer"
    /\ log[1].finish_reason = "length"
    /\ log[2].kind = "answer"
    /\ log[2].finish_reason = "stop"
    /\ iteration < max_iterations

\* the positions of the tool turns in the conversation
ToolTurns == {i \in DOMAIN conversation : conversation[i].role = "tool"}

\* the turn is an assistant turn addressed to the shell capability
ShellAddressed(turn) ==
    turn.role = "assistant" /\ turn.recipient = "functions.execute_bash"

\* the turn is a tool turn holding the command, an exit code and an output
ToolResultOf(turn, cmd) ==
    /\ turn.role = "tool"
    /\ turn.content.kind = "tool_result"
    /\ turn.content.command = cmd
    /\ turn.content.return_code \in {0, -1}
    /\ turn.content.output \in {"stdout+stderr"} \cup ErrorOutputs

\* C17: every tool turn comes right after an assistant turn addressed to the
\* shell capability and holds the command executed at its rank; there are as
\* many tool turns as commands executed, and no more of those than model
\* requests. Each iteration that found a command hands exactly that command
\* to the executor once and appends exactly these two turns, in this order.
C17_CommandIterationTurns ==
    /\ [](/\ Cardinality(ToolTurns) = Len(executed)
          /\ Len(executed) <= nRequests
          /\ \A i \in ToolTurns :
                /\ i > 1
                /\ ShellAddressed(conversation[i - 1])
                /\ ToolResultOf(conversation[i],
                                executed[Cardinality({j \in ToolTurns : j <= i})]))
    /\ [][(pc = "act" /\ command \notin {Null, ""}) =>
            /\ executed' = Append(executed, command)
            /\ Len(conversation') = Len(conversation) + 2
            /\ SubSeq(conversation', 1, Len(conversation)) = conversation
            /\ ShellAddressed(conversation'[Len(conversation) + 1])
            /\ ToolResultOf(conversation'[Len(conversation) + 2], command)]_vars

\* two iterations that found a command: two tool turns, each after its
\* assistant turn, after two requests
C17_Witness ==
    /\ Len(executed) = 2
    /\ executed[1] # executed[2]
    /\ nRequests = 2
    /\ Cardinality(ToolTurns) = 2
    /\ conversation[Len(conversation)].role = "tool"
    /\ conversation[Len(conversation)].content.command = executed[2]

\* the extraction step has called extract_command on the decoded messages
ExtractCommandCalled ==
    pc = "act" /\ "harmony" \in tried /\ ~reply.harmony.raises

\* the decoded messages addressed to the shell capability whose first content
\* item is a JSON object, and those among them that have a "command"
ShellObjects(parsed) ==
    {i \in DOMAIN parsed : parsed[i].to_bash /\ parsed[i].shape = "object"}
ShellObjectsWithCommand(parsed) ==
    {i \in ShellObjects(parsed) : parsed[i].command # Null}
First(S) == CHOOSE i \in S : \A j \in S : i <= j

Carries(entry, turn) ==
    entry.role = turn.role /\ entry.content = <<turn.content>>

\* C19: the messages of a request are the turns of the conversation at that
\* moment, one entry per turn in order; so the request that follows an
\* iteration that found a command ends with the tool turn of that command,
\* and what was sent stays a prefix of the conversation. A command is executed
\* only while the reply to the latest request is being handled, before any
\* further request.
C19_RequestCarriesConversation ==
    /\ [](/\ Len(api_messages) <= Len(conversation)
          /\ \A i \in DOMAIN api_messages : Carries(api_messages[i], conversation[i])
          /\ (pc \in {"extract", "act"}) =>
                /\ nPosts = iteration
                /\ Len(api_messages) = Len(conversation)
                /\ (log # <<>> /\ log[Len(log)].kind = "command") =>
                      /\ api_messages[Len(api_messages)].role = "tool"
                      /\ api_messages[Len(api_messages)].content[1].command =
                            executed[Len(executed)])
    /\ [][executed' # executed =>
            /\ pc = "act"
            /\ reply # NoReply
            /\ nPosts = iteration
            /\ nPosts' = nPosts
            /\ pc' = "request"]_vars

\* the second request, after an iteration that executed a command, carries the
\* three seeded turns, the assistant turn and the tool turn
C19_Witness ==
    /\ pc = "extract"
    /\ nPosts = 2
    /\ Len(executed) = 1
    /\ Len(api_messages) = 5
    /\ api_messages[4].role = "assistant"
    /\ api_messages[5].role = "tool"
    /\ api_messages[5].content[1].return_code = 0

\* the value is a "command" value of the reply: of one of its tool calls, of
\* its JSON content, or of one of its decoded messages
FromReply(c, r) ==
    \/ \E i \in DOMAIN r.tool_calls : r.tool_calls[i].command = c
    \/ r.content.command = c
    \/ \E i \in DOMAIN r.harmony.parsed : r.harmony.parsed[i].command = c

\* C20: no command handed to the executor is None or the empty string. An
\* iteration whose extraction step ends with None or "" executes nothing and
\* ends as an iteration without command; a command that is executed is the
\* non-empty value the extraction step took from the reply of that iteration.
C20_NeverEmptyCommand ==
    /\ [](\A k \in DOMAIN executed : executed[k] \notin {Null, ""})
    /\ [][/\ (pc = "act" /\ command \in {Null, ""}) =>
               /\ executed' = executed
               /\ pc' \in {"request", "done"}
               /\ Len(log') = Len(log) + 1
               /\ log'[Len(log')].kind = "answer"
          /\ executed' # executed =>
               /\ pc = "act"
               /\ executed' = Append(executed, command)
               /\ command \notin {Null, ""}
               /\ FromReply(command, reply)
               /\ nRequests = iteration]_vars

\* a reply whose only "command" value is the empty string went through as an
\* iteration without command, and a later reply had its command executed
C20_Witness ==
    /\ Len(log) = 2
    /\ log[1].kind = "answer"
    /\ log[1].content = Text("object", "")
    /\ log[2].kind = "command"
    /\ Len(executed) = 1

====
